---- MODULE Spec2Model ----
(***************************************************************************)
(* Model of the hot-hand streak analysis: hot_hand_sim.py (shot           *)
(* simulation, streak extraction, tabulation, season normalisation, trial  *)
(* aggregation, rebuild of the persisted profile) and process_csv.py       *)
(* (streakiness z-scores, the persisted streak table).                     *)
(*                                                                         *)
(* Numbers.  Probabilities and draws of random.random() are multiples of   *)
(* 1/Denom: the draw r stands for r/Denom in [0,1), shooting_avg p for     *)
(* p/Denom.  Quotients are exact rationals [num, den] in lowest terms;     *)
(* values that involve numpy's mean/std are records                        *)
(* [nan, num, den, rad] standing for (num/den)*sqrt(rad), or NaN.          *)
(***************************************************************************)
EXTENDS Integers, Sequences, FiniteSets, TLC

\* ---------------------------------------------------------------- bounds
Denom == 2
MaxShots == 5
MaxTrials == 3
MaxSeqLen == 3
NumPlayers == 2
TablePlayers == 2
TableSeqLen == 6

\* sorted_players[:5]
TopStreakiest == 5

VARIABLES
    \* hot_hand_sim.py: average_several_seasons and what it calls
    pc, shooting_avg, shots_taken, trials, trial,
    shot_sequence, pos, result, streaking, current_hit_streak,
    frequency_of_streaks, all_lists, summed_values, outcome,
    \* process_csv.py script and the rebuild in hot_hand_sim.py
    stage, filtered_players, streakiness, all_streaks, overall_mean,
    overall_std, player_z_scores, player_hit_streak_lengths,
    player_hit_streak_frequencies, player_data_for_df, csv_file,
    player_streak_lists

simVars == <<pc, shooting_avg, shots_taken, trials, trial,
             shot_sequence, pos, result, streaking, current_hit_streak,
             frequency_of_streaks, all_lists, summed_values, outcome>>
csvVars == <<stage, filtered_players, streakiness, all_streaks,
             overall_mean, overall_std, player_z_scores,
             player_hit_streak_lengths, player_hit_streak_frequencies,
             player_data_for_df, csv_file, player_streak_lists>>
vars == <<simVars, csvVars>>

\* ------------------------------------------------------------ arithmetic
Abs(x) == IF x < 0 THEN -x ELSE x

Min(a, b) == IF a < b THEN a ELSE b

RECURSIVE GCD(_, _)
GCD(a, b) == IF b = 0 THEN a ELSE GCD(b, a % b)

\* the quotient n/d (d # 0) in lowest terms, den > 0
Rat(n, d) ==
    LET g == GCD(Abs(n), Abs(d))
        s == IF d < 0 THEN -1 ELSE 1
    IN  [num |-> s * (n \div g), den |-> Abs(d) \div g]

RatAdd(x, y) == Rat(x.num * y.den + y.num * x.den, x.den * y.den)

RatSub(x, y) == Rat(x.num * y.den - y.num * x.den, x.den * y.den)

RatLess(x, y) == x.num * y.den < y.num * x.den

RECURSIVE SumSeq(_)
SumSeq(s) == IF s = <<>> THEN 0 ELSE Head(s) + SumSeq(Tail(s))

RECURSIVE Concat(_)
Concat(ss) == IF ss = <<>> THEN <<>> ELSE Head(ss) \o Concat(Tail(ss))

\* all sequences over S of length 0..n
SeqsUpTo(S, n) == UNION {[1..k -> S] : k \in 0..n}

\* -------------------------------------------------- hot_hand_sim.py
\* single_shot: the draw is compared with <=
single_shot(p, r) == IF r <= p THEN 1 ELSE 0

\* one iteration of the scan loop of hit_streak_lengths
ScanStep(st, shot) ==
    IF shot = 1
    THEN IF st.streaking = FALSE
         THEN [st EXCEPT !.streaking = TRUE, !.current_hit_streak = 1]
         ELSE [st EXCEPT !.current_hit_streak = @ + 1]
    ELSE IF st.streaking = TRUE
         THEN [st EXCEPT !.streaking = FALSE,
                         !.result = Append(@, st.current_hit_streak),
                         !.current_hit_streak = 0]
         ELSE st

ScanEndDropsTail(st, seq) == st.result

ScanEndAppendsCount(st, seq) ==
    IF st.streaking = TRUE THEN Append(st.result, Len(seq)) ELSE st.result

\* after the loop: a streak still open is appended
ScanEnd(st, seq) ==
    IF st.streaking = TRUE
    THEN Append(st.result, st.current_hit_streak)
    ELSE st.result

ScanInit == [result |-> <<>>, streaking |-> FALSE, current_hit_streak |-> 0]

RECURSIVE ScanFrom(_, _)
ScanFrom(st, seq) ==
    IF seq = <<>> THEN st ELSE ScanFrom(ScanStep(st, Head(seq)), Tail(seq))

\* defaultdict(int) kept in insertion order: a sequence of <<key, count>>
DictKeys(d) == {d[i][1] : i \in 1..Len(d)}

DictIncr(d, k) ==
    IF k \in DictKeys(d)
    THEN [i \in 1..Len(d) |-> IF d[i][1] = k THEN <<k, d[i][2] + 1>> ELSE d[i]]
    ELSE Append(d, <<k, 1>>)

RECURSIVE CountInto(_, _)
CountInto(d, lengths) ==
    IF lengths = <<>> THEN d
    ELSE CountInto(DictIncr(d, Head(lengths)), Tail(lengths))

DictValues(d) == [i \in 1..Len(d) |-> d[i][2]]

\* hit_streak_frequencies: result.values(), in insertion order of the keys
hit_streak_frequencies(lengths) == DictValues(CountInto(<<>>, lengths))

\* freq / number_of_streaks: raises ZeroDivisionError on a zero divisor
DivRaises(a, b) == b = 0

NormalizeRaisesHoisted(freqs, number_of_streaks) == number_of_streaks = 0

\* the list comprehension of simulate_season raises iff one division does
NormalizeRaises(freqs, number_of_streaks) ==
    \E i \in 1..Len(freqs) : DivRaises(freqs[i], number_of_streaks)

Normalize(freqs, number_of_streaks) ==
    [i \in 1..Len(freqs) |-> Rat(freqs[i], number_of_streaks)]

\* zip(*all_lists): as many tuples as the shortest list, none for no list
ZipLen(lists) ==
    IF lists = <<>> THEN 0
    ELSE LET lens == {Len(lists[i]) : i \in 1..Len(lists)}
         IN  CHOOSE m \in lens : \A n \in lens : m <= n

RECURSIVE RatSum(_)
RatSum(s) == IF s = <<>> THEN Rat(0, 1) ELSE RatAdd(Head(s), RatSum(Tail(s)))

SummedValues(lists) ==
    [k \in 1..ZipLen(lists) |-> RatSum([i \in 1..Len(lists) |-> lists[i][k]])]

\* ---------------------------------------------------- numpy values
\* (num/den) * sqrt(rad), or NaN
NaN == [nan |-> TRUE, num |-> 0, den |-> 1, rad |-> 1]

FromRat(q) == [nan |-> FALSE, num |-> q.num, den |-> q.den, rad |-> 1]

\* the largest s with s*s dividing n (n >= 1), searched upwards from s
RECURSIVE SquarePartFrom(_, _, _)
SquarePartFrom(n, s, best) ==
    IF s * s > n THEN best
    ELSE SquarePartFrom(n, s + 1, IF n % (s * s) = 0 THEN s ELSE best)

SquarePart(n) == SquarePartFrom(n, 1, 1)

\* (n/d) * sqrt(rad) with the square factors of rad taken out
MkVal(n, d, rad) ==
    IF n = 0 \/ rad = 0 THEN FromRat(Rat(0, 1))
    ELSE LET s == SquarePart(rad)
             q == Rat(n * s, d)
         IN  [nan |-> FALSE, num |-> q.num, den |-> q.den,
              rad |-> rad \div (s * s)]

\* x - y for values without a root
ValSub(x, y) ==
    IF x.nan \/ y.nan THEN NaN
    ELSE FromRat(RatSub([num |-> x.num, den |-> x.den],
                        [num |-> y.num, den |-> y.den]))

\* x / y for x without a root and y # 0:
\* (a/b) / ((c/d) sqrt(t)) = (a d / (b c t)) sqrt(t)
ValDiv(x, y) ==
    IF x.nan \/ y.nan THEN NaN
    ELSE MkVal(x.num * y.den, x.den * y.num * y.rad, y.rad)

\* v != 0 as IEEE compares: true of NaN
ValNeZero(v) == v.nan \/ v.num # 0

\* sign(v) * v^2, a rational
SignedSquare(v) ==
    Rat((IF v.num < 0 THEN -1 ELSE 1) * v.num * v.num * v.rad, v.den * v.den)

\* x > y as IEEE compares: false when either is NaN
ValGreater(x, y) ==
    /\ ~x.nan
    /\ ~y.nan
    /\ RatLess(SignedSquare(y), SignedSquare(x))

\* np.mean: NaN of an empty list
np_mean(xs) ==
    IF xs = <<>> THEN NaN ELSE FromRat(Rat(SumSeq(xs), Len(xs)))

\* np.std: sqrt(mean(|x - mean|^2)), NaN of an empty list
np_std(xs) ==
    IF xs = <<>> THEN NaN
    ELSE LET m == Rat(SumSeq(xs), Len(xs))
             dev(i) == RatSub(Rat(xs[i], 1), m)
             sq(i) == Rat(dev(i).num * dev(i).num, dev(i).den * dev(i).den)
             total == RatSum([i \in 1..Len(xs) |-> sq(i)])
             var == Rat(total.num, total.den * Len(xs))
         IN  MkVal(1, var.den, var.num * var.den)

\* ----------------------------------------------------- process_csv.py
\* the scan written out inside find_streakiness
StreaksOfPlayer(sequence) == ScanEnd(ScanFrom(ScanInit, sequence), sequence)

\* sum(result) / len(result) if result else 0
PlayerMean(res) ==
    IF res # <<>> THEN FromRat(Rat(SumSeq(res), Len(res)))
    ELSE FromRat(Rat(0, 1))

ZScoreSwapped(mean_of_player, mean, std) ==
    IF ValNeZero(std) THEN ValDiv(ValSub(mean, mean_of_player), std)
    ELSE FromRat(Rat(0, 1))

\* (streakiness[player] - overall_mean) / overall_std if overall_std != 0 else 0
ZScore(mean_of_player, mean, std) ==
    IF ValNeZero(std) THEN ValDiv(ValSub(mean_of_player, mean), std)
    ELSE FromRat(Rat(0, 1))

\* the module's own copies of the two helpers
csv_hit_streak_lengths(seq) == ScanEnd(ScanFrom(ScanInit, seq), seq)

csv_hit_streak_frequencies(lengths) == DictValues(CountInto(<<>>, lengths))

\* sorted(items, key = z-score, reverse = True): a stable sort: players that
\* do not compare greater either way keep their dict order
SortedPlayers(z) ==
    LET before(q, p) ==
            \/ ValGreater(z[q], z[p])
            \/ (~ValGreater(z[p], z[q]) /\ q < p)
        rank(p) == Cardinality({q \in DOMAIN z : before(q, p)})
    IN  [i \in 1..Cardinality(DOMAIN z) |->
            CHOOSE p \in DOMAIN z : rank(p) = i - 1]

\* dict(sorted_players[:5])
StreakiestShooters(z) ==
    LET sorted == SortedPlayers(z)
    IN  [i \in 1..Min(TopStreakiest, Len(sorted)) |-> sorted[i]]

\* zip(lengths, freqs) for one player: one row per pair
RowsOfPlayer(player_id, lengths, freqs) ==
    [i \in 1..Min(Len(lengths), Len(freqs)) |->
        [player_id |-> player_id, streak_length |-> lengths[i],
         frequency |-> freqs[i]]]

\* an integer >= 0 as its decimal digits, and back
RECURSIVE IntToStr(_)
IntToStr(n) == IF n < 10 THEN <<n>> ELSE Append(IntToStr(n \div 10), n % 10)

RECURSIVE StrToInt(_)
StrToInt(ds) ==
    IF Len(ds) = 1 THEN ds[1]
    ELSE 10 * StrToInt(SubSeq(ds, 1, Len(ds) - 1)) + ds[Len(ds)]

\* DataFrame(rows).to_csv: a frame without rows has no columns, no header
ToCsv(rows) ==
    [header |-> rows # <<>>,
     lines |-> [i \in 1..Len(rows) |->
                   [player_id |-> IntToStr(rows[i].player_id),
                    streak_length |-> IntToStr(rows[i].streak_length),
                    frequency |-> IntToStr(rows[i].frequency)]]]

\* hot_hand_sim.py: player_streak_frequencies[player_id][streak_length] =
\* frequency, row by row: a later row overwrites an earlier one
StreakFrequenciesOf(lines, player_id) ==
    LET mine == {i \in 1..Len(lines) : StrToInt(lines[i].player_id) = player_id}
        keys == {StrToInt(lines[i].streak_length) : i \in mine}
        last(k) == CHOOSE i \in mine :
                      /\ StrToInt(lines[i].streak_length) = k
                      /\ \A j \in mine :
                            StrToInt(lines[j].streak_length) = k => j <= i
    IN  [k \in keys |-> StrToInt(lines[last(k)].frequency)]

\* frequency_list = [0] * (max + 1), then frequency_list[length] = freq;
\* Python index j is position j + 1 here
FrequencyList(streaks) ==
    LET max_streak_length == CHOOSE m \in DOMAIN streaks :
                                \A k \in DOMAIN streaks : k <= m
    IN  [j \in 1..(max_streak_length + 1) |->
            IF (j - 1) \in DOMAIN streaks THEN streaks[j - 1] ELSE 0]

PlayerStreakLists(lines) ==
    LET ids == {StrToInt(lines[i].player_id) : i \in 1..Len(lines)}
    IN  [p \in ids |-> FrequencyList(StreakFrequenciesOf(lines, p))]

\* ------------------------------------------------------------- actions
CsvIdle ==
    /\ stage = "idle"
    /\ filtered_players = <<>>
    /\ streakiness = <<>>
    /\ all_streaks = <<>>
    /\ overall_mean = NaN
    /\ overall_std = NaN
    /\ player_z_scores = <<>>
    /\ player_hit_streak_lengths = <<>>
    /\ player_hit_streak_frequencies = <<>>
    /\ player_data_for_df = <<>>
    /\ csv_file = [header |-> FALSE, lines |-> <<>>]
    /\ player_streak_lists = <<>>

\* a call average_several_seasons(shooting_avg, shots_taken, trials)
InitSim ==
    /\ shooting_avg \in -1..(Denom + 1)
    /\ shots_taken \in -1..MaxShots
    /\ trials \in -1..MaxTrials
    /\ pc = "trials"
    /\ trial = 0
    /\ shot_sequence = <<>>
    /\ pos = 0
    /\ result = <<>>
    /\ streaking = FALSE
    /\ current_hit_streak = 0
    /\ frequency_of_streaks = <<>>
    /\ all_lists = <<>>
    /\ summed_values = <<>>
    /\ outcome = "running"
    /\ CsvIdle

\* for i in range(trials): simulate_season is entered
SimulateSeasonCall ==
    /\ pc = "trials"
    /\ trial < trials
    /\ pc' = "shots"
    /\ shot_sequence' = <<>>
    /\ pos' = 0
    /\ result' = <<>>
    /\ streaking' = FALSE
    /\ current_hit_streak' = 0
    /\ frequency_of_streaks' = <<>>
    /\ UNCHANGED <<shooting_avg, shots_taken, trials, trial, all_lists,
                   summed_values, outcome, csvVars>>

\* one iteration of multiple_shots: a draw of random.random() in [0,1)
SingleShot ==
    /\ pc = "shots"
    /\ Len(shot_sequence) < shots_taken
    /\ \E random_value \in 0..(Denom - 1) :
          shot_sequence' = Append(shot_sequence,
                                  single_shot(shooting_avg, random_value))
    /\ UNCHANGED <<pc, shooting_avg, shots_taken, trials, trial, pos, result,
                   streaking, current_hit_streak, frequency_of_streaks,
                   all_lists, summed_values, outcome, csvVars>>

\* range(0, number_of_shots) is exhausted; hit_streak_lengths is entered
MultipleShotsReturn ==
    /\ pc = "shots"
    /\ ~(Len(shot_sequence) < shots_taken)
    /\ pc' = "scan"
    /\ pos' = 0
    /\ result' = ScanInit.result
    /\ streaking' = ScanInit.streaking
    /\ current_hit_streak' = ScanInit.current_hit_streak
    /\ UNCHANGED <<shooting_avg, shots_taken, trials, trial, shot_sequence,
                   frequency_of_streaks, all_lists, summed_values, outcome,
                   csvVars>>

ScanState == [result |-> result, streaking |-> streaking,
              current_hit_streak |-> current_hit_streak]

\* for shot in shot_sequence: one shot is scanned
ScanShot ==
    /\ pc = "scan"
    /\ pos < Len(shot_sequence)
    /\ LET st == ScanStep(ScanState, shot_sequence[pos + 1])
       IN  /\ result' = st.result
           /\ streaking' = st.streaking
           /\ current_hit_streak' = st.current_hit_streak
    /\ pos' = pos + 1
    /\ UNCHANGED <<pc, shooting_avg, shots_taken, trials, trial,
                   shot_sequence, frequency_of_streaks, all_lists,
                   summed_values, outcome, csvVars>>

\* the loop is over: the open streak is appended, the list returned
ScanReturn ==
    /\ pc = "scan"
    /\ pos = Len(shot_sequence)
    /\ result' = ScanEnd(ScanState, shot_sequence)
    /\ pc' = "tabulate"
    /\ UNCHANGED <<shooting_avg, shots_taken, trials, trial, shot_sequence,
                   pos, streaking, current_hit_streak, frequency_of_streaks,
                   all_lists, summed_values, outcome, csvVars>>

\* frequency_of_streaks = hit_streak_frequencies(streak_lengths)
Tabulate ==
    /\ pc = "tabulate"
    /\ frequency_of_streaks' = hit_streak_frequencies(result)
    /\ pc' = "normalize"
    /\ UNCHANGED <<shooting_avg, shots_taken, trials, trial, shot_sequence,
                   pos, result, streaking, current_hit_streak, all_lists,
                   summed_values, outcome, csvVars>>

\* the normalised list is built, returned and appended to all_lists
NormalizeAndAppend ==
    /\ pc = "normalize"
    /\ IF NormalizeRaises(frequency_of_streaks, Len(result))
       THEN /\ outcome' = "ZeroDivisionError"
            /\ pc' = "done"
            /\ UNCHANGED <<all_lists, trial>>
       ELSE /\ all_lists' = Append(all_lists,
                                   Normalize(frequency_of_streaks, Len(result)))
            /\ trial' = trial + 1
            /\ pc' = "trials"
            /\ UNCHANGED outcome
    /\ UNCHANGED <<shooting_avg, shots_taken, trials, shot_sequence, pos,
                   result, streaking, current_hit_streak,
                   frequency_of_streaks, summed_values, csvVars>>

\* range(trials) is exhausted: the lists are zipped, summed and returned
SumSeasons ==
    /\ pc = "trials"
    /\ ~(trial < trials)
    /\ summed_values' = SummedValues(all_lists)
    /\ outcome' = "returned"
    /\ pc' = "done"
    /\ UNCHANGED <<shooting_avg, shots_taken, trials, trial, shot_sequence,
                   pos, result, streaking, current_hit_streak,
                   frequency_of_streaks, all_lists, csvVars>>

NextSim ==
    \/ SimulateSeasonCall
    \/ SingleShot
    \/ MultipleShotsReturn
    \/ ScanShot
    \/ ScanReturn
    \/ Tabulate
    \/ NormalizeAndAppend
    \/ SumSeasons

SpecSim == InitSim /\ [][NextSim]_vars

\* ---------------------------------------------- process_csv.py script
SimIdle ==
    /\ pc = "idle"
    /\ shooting_avg = 0
    /\ shots_taken = 0
    /\ trials = 0
    /\ trial = 0
    /\ shot_sequence = <<>>
    /\ pos = 0
    /\ result = <<>>
    /\ streaking = FALSE
    /\ current_hit_streak = 0
    /\ frequency_of_streaks = <<>>
    /\ all_lists = <<>>
    /\ summed_values = <<>>
    /\ outcome = "idle"

\* the dicts {player_id: shot sequence} over ids 1..n, sequences up to len
PlayerDicts(n, len) ==
    UNION {[ids -> SeqsUpTo({0, 1}, len)] : ids \in SUBSET (1..n)}

CsvStart(n, len) ==
    /\ filtered_players \in PlayerDicts(n, len)
    /\ stage = "score"
    /\ streakiness = <<>>
    /\ all_streaks = <<>>
    /\ overall_mean = NaN
    /\ overall_std = NaN
    /\ player_z_scores = <<>>
    /\ player_hit_streak_lengths = <<>>
    /\ player_hit_streak_frequencies = <<>>
    /\ player_data_for_df = <<>>
    /\ csv_file = [header |-> FALSE, lines |-> <<>>]
    /\ player_streak_lists = <<>>
    /\ SimIdle

\* find_streakiness(filtered_players) is entered
InitScore == CsvStart(NumPlayers, MaxSeqLen)

InitTable == CsvStart(TablePlayers, TableSeqLen)

\* one iteration of the loop over shot_sequence.items()
ScorePlayer ==
    /\ stage = "score"
    /\ DOMAIN streakiness # DOMAIN filtered_players
    /\ LET todo == DOMAIN filtered_players \ DOMAIN streakiness
           player == CHOOSE p \in todo : \A q \in todo : p <= q
           res == StreaksOfPlayer(filtered_players[player])
       IN  /\ all_streaks' = all_streaks \o res
           /\ streakiness' =
                 [p \in DOMAIN streakiness \cup {player} |->
                     IF p = player THEN PlayerMean(res) ELSE streakiness[p]]
    /\ UNCHANGED <<stage, filtered_players, overall_mean, overall_std,
                   player_z_scores, player_hit_streak_lengths,
                   player_hit_streak_frequencies, player_data_for_df,
                   csv_file, player_streak_lists, simVars>>

\* overall_mean = np.mean(all_streaks); overall_std = np.std(all_streaks)
PoolStatistics ==
    /\ stage = "score"
    /\ DOMAIN streakiness = DOMAIN filtered_players
    /\ overall_mean' = np_mean(all_streaks)
    /\ overall_std' = np_std(all_streaks)
    /\ stage' = "zscore"
    /\ UNCHANGED <<filtered_players, streakiness, all_streaks,
                   player_z_scores, player_hit_streak_lengths,
                   player_hit_streak_frequencies, player_data_for_df,
                   csv_file, player_streak_lists, simVars>>

\* the z-score loop and the return into player_z_scores
ZScores ==
    /\ stage = "zscore"
    /\ streakiness' = [p \in DOMAIN streakiness |->
                          ZScore(streakiness[p], overall_mean, overall_std)]
    /\ player_z_scores' = streakiness'
    /\ stage' = "lengths"
    /\ UNCHANGED <<filtered_players, all_streaks, overall_mean, overall_std,
                   player_hit_streak_lengths, player_hit_streak_frequencies,
                   player_data_for_df, csv_file, player_streak_lists, simVars>>

\* player_hit_streak_lengths[player] = hit_streak_lengths(shots)
StreakLengths ==
    /\ stage = "lengths"
    /\ player_hit_streak_lengths' =
          [p \in DOMAIN filtered_players |->
              csv_hit_streak_lengths(filtered_players[p])]
    /\ stage' = "frequencies"
    /\ UNCHANGED <<filtered_players, streakiness, all_streaks, overall_mean,
                   overall_std, player_z_scores,
                   player_hit_streak_frequencies, player_data_for_df,
                   csv_file, player_streak_lists, simVars>>

\* player_hit_streak_frequencies[player] = hit_streak_frequencies(lengths)
StreakFrequencies ==
    /\ stage = "frequencies"
    /\ player_hit_streak_frequencies' =
          [p \in DOMAIN player_hit_streak_lengths |->
              csv_hit_streak_frequencies(player_hit_streak_lengths[p])]
    /\ stage' = "rows"
    /\ UNCHANGED <<filtered_players, streakiness, all_streaks, overall_mean,
                   overall_std, player_z_scores, player_hit_streak_lengths,
                   player_data_for_df, csv_file, player_streak_lists, simVars>>

\* the streakiest players are picked and their rows listed
BuildRows ==
    /\ stage = "rows"
    /\ LET shooters == StreakiestShooters(player_z_scores)
       IN  player_data_for_df' =
              Concat([i \in 1..Len(shooters) |->
                        RowsOfPlayer(shooters[i],
                            player_hit_streak_lengths[shooters[i]],
                            player_hit_streak_frequencies[shooters[i]])])
    /\ stage' = "write"
    /\ UNCHANGED <<filtered_players, streakiness, all_streaks, overall_mean,
                   overall_std, player_z_scores, player_hit_streak_lengths,
                   player_hit_streak_frequencies, csv_file,
                   player_streak_lists, simVars>>

\* player_data_df.to_csv(file_path, index=False)
WriteCsv ==
    /\ stage = "write"
    /\ csv_file' = ToCsv(player_data_for_df)
    /\ stage' = "read"
    /\ UNCHANGED <<filtered_players, streakiness, all_streaks, overall_mean,
                   overall_std, player_z_scores, player_hit_streak_lengths,
                   player_hit_streak_frequencies, player_data_for_df,
                   player_streak_lists, simVars>>

\* hot_hand_sim.py: pd.read_csv and the rebuild of the dense lists;
\* read_csv raises EmptyDataError on a file without a header line
ReadCsvAndRebuild ==
    /\ stage = "read"
    /\ IF csv_file.header
       THEN /\ player_streak_lists' = PlayerStreakLists(csv_file.lines)
            /\ stage' = "rebuilt"
       ELSE /\ stage' = "EmptyDataError"
            /\ UNCHANGED player_streak_lists
    /\ UNCHANGED <<filtered_players, streakiness, all_streaks, overall_mean,
                   overall_std, player_z_scores, player_hit_streak_lengths,
                   player_hit_streak_frequencies, player_data_for_df,
                   csv_file, simVars>>

\* find_streakiness alone, from its call to its return
NextScore ==
    \/ ScorePlayer
    \/ PoolStatistics
    \/ ZScores

\* the script from the call of find_streakiness to the rebuilt lists
NextCsv ==
    \/ NextScore
    \/ StreakLengths
    \/ StreakFrequencies
    \/ BuildRows
    \/ WriteCsv
    \/ ReadCsvAndRebuild

SpecScore == InitScore /\ [][NextScore]_vars

SpecTable == InitTable /\ [][NextCsv]_vars

\* ------------------------------------------- properties of the simulation
\* the maximal runs of hits of seq, as <<first, last>> positions
MaximalRuns(seq) ==
    {r \in (1..Len(seq)) \X (1..Len(seq)) :
        /\ r[1] <= r[2]
        /\ \A i \in r[1]..r[2] : seq[i] = 1
        /\ (r[1] = 1 \/ seq[r[1] - 1] = 0)
        /\ (r[2] = Len(seq) \/ seq[r[2] + 1] = 0)}

\* result lists the lengths of the maximal runs of seq from left to right
IsRunLengths(res, seq) ==
    LET runs == MaximalRuns(seq)
        rank(r) == Cardinality({q \in runs : q[1] <= r[1]})
    IN  /\ Len(res) = Cardinality(runs)
        /\ \A r \in runs : res[rank(r)] = r[2] - r[1] + 1

Scanned == pc \in {"tabulate", "normalize"} \/ (pc = "trials" /\ trial > 0)

NoMisses(seq) == \A i \in 1..Len(seq) : seq[i] = 1

NoHits(seq) == \A i \in 1..Len(seq) : seq[i] = 0

Occurrences(lengths, k) == Cardinality({i \in 1..Len(lengths) : lengths[i] = k})

\* C1: once hit_streak_lengths has returned, its result is exactly the
\* lengths of the maximal runs of 1s of the sequence in left-to-right order,
\* a trailing run included; no hits give the empty list and N >= 1 hits
\* alone give the one-element list <<N>>.
C1_StreaksAreMaximalRuns ==
    Scanned =>
        /\ IsRunLengths(result, shot_sequence)
        /\ (NoHits(shot_sequence) => result = <<>>)
        /\ (NoMisses(shot_sequence) /\ shot_sequence # <<>>
               => result = <<Len(shot_sequence)>>)

C1_Witness ==
    /\ pc = "tabulate"
    /\ Len(shot_sequence) >= 3
    /\ shot_sequence[Len(shot_sequence)] = 1
    /\ Len(result) >= 2

\* C10: during the scan the closed streaks plus the running counter never
\* exceed the number of shots scanned; the returned lengths sum to at most
\* len(S), with equality exactly when S has no miss.
C10_SumBoundedByShots ==
    /\ pc = "scan" => SumSeq(result) + current_hit_streak <= pos
    /\ Scanned =>
          /\ SumSeq(result) <= Len(shot_sequence)
          /\ (SumSeq(result) = Len(shot_sequence) <=> NoMisses(shot_sequence))

C10_Witness ==
    /\ pc = "tabulate"
    /\ Len(shot_sequence) = MaxShots
    /\ ~NoMisses(shot_sequence)
    /\ SumSeq(result) = Len(shot_sequence) - 1

MaxOf(S) == IF S = {} THEN 0 ELSE CHOOSE m \in S : \A n \in S : n <= m

\* the profile p read as zero-padded at the tail
Padded(p, k) == IF k <= Len(p) THEN p[k] ELSE Rat(0, 1)

\* C2 (as claimed): the aggregate is as long as the longest trial profile
\* and is the element-wise sum of the zero-padded trial profiles.
C2_SumOfPaddedProfiles ==
    (pc = "done" /\ outcome = "returned") =>
        LET longest == MaxOf({Len(all_lists[i]) : i \in 1..Len(all_lists)})
        IN  /\ Len(summed_values) = longest
            /\ \A k \in 1..longest :
                  summed_values[k] =
                      RatSum([i \in 1..Len(all_lists) |-> Padded(all_lists[i], k)])

\* C3 (as claimed): the tabulator's output used by simulate_season is dense:
\* entry k, for k from 1 to the longest streak, is the number of streaks of
\* length exactly k.
C3_ProfileIsDense ==
    pc = "normalize" =>
        /\ Len(frequency_of_streaks) = MaxOf({result[i] : i \in 1..Len(result)})
        /\ \A k \in 1..Len(frequency_of_streaks) :
              frequency_of_streaks[k] = Occurrences(result, k)

\* C5: simulate_season never divides by zero: a season without streaks
\* returns the empty profile, and with streaks every entry is a tabulated
\* count divided by the number of streaks of that season.
C5_NoDivisionByZero ==
    /\ outcome # "ZeroDivisionError"
    /\ (pc = "trials" /\ trial > 0) =>
          LET profile == all_lists[trial]
              number_of_streaks == Cardinality(MaximalRuns(shot_sequence))
          IN  /\ number_of_streaks = 0 => profile = <<>>
              /\ Len(profile) = Len(frequency_of_streaks)
              /\ \A i \in 1..Len(profile) :
                    /\ \E k \in 1..Len(shot_sequence) :
                          frequency_of_streaks[i] = Occurrences(result, k)
                    /\ profile[i].num * number_of_streaks =
                           frequency_of_streaks[i] * profile[i].den

C5_Witness ==
    /\ pc = "trials"
    /\ trial = 2
    /\ shots_taken > 0
    /\ all_lists[1] = <<>>
    /\ all_lists[2] # <<>>

InvalidParameter ==
    \/ shooting_avg < 0
    \/ shooting_avg > Denom
    \/ shots_taken < 0
    \/ trials <= 0

\* C7 (as claimed): with an invalid parameter no shot is drawn, no profile
\* is built or returned and the call ends in an error.
C7_InvalidParameterFailsFast ==
    InvalidParameter =>
        /\ shot_sequence = <<>>
        /\ all_lists = <<>>
        /\ outcome # "returned"
        /\ pc = "done" => outcome = "InvalidParameter"

\* C8 (as claimed): whatever the draws, a sequence simulated with p = 0.0
\* has no hit and one simulated with p = 1.0 has only hits, and the finished
\* sequence has length n.
C8_DegenerateProbabilities ==
    /\ shooting_avg = 0 => NoHits(shot_sequence)
    /\ shooting_avg = Denom => NoMisses(shot_sequence)
    /\ (pc = "scan" /\ shots_taken >= 0) => Len(shot_sequence) = shots_taken

\* --------------------------------------------- properties of the scoring
Scored == stage \notin {"idle", "score", "zscore"}

RunLength(r) == r[2] - r[1] + 1

RECURSIVE SumOver(_, _)
SumOver(S, f) ==
    IF S = {} THEN 0
    ELSE LET x == CHOOSE y \in S : TRUE IN f[x] + SumOver(S \ {x}, f)

\* the runs of every player, as <<player, first, last>>
PooledRuns ==
    UNION {{<<p, r[1], r[2]>> : r \in MaximalRuns(filtered_players[p])} :
              p \in DOMAIN filtered_players}

PoolCount == Cardinality(PooledRuns)

PoolSum == SumOver(PooledRuns, [t \in PooledRuns |-> t[3] - t[2] + 1])

PoolSumOfSquares ==
    SumOver(PooledRuns, [t \in PooledRuns |-> (t[3] - t[2] + 1) * (t[3] - t[2] + 1)])

\* N * sum(x^2) - sum(x)^2: N^2 times the population variance of the pool
PoolSpread == PoolCount * PoolSumOfSquares - PoolSum * PoolSum

\* a player's mean streak length, 0 without streaks
MeanStreakLength(p) ==
    LET runs == MaximalRuns(filtered_players[p])
    IN  IF runs = {} THEN Rat(0, 1)
        ELSE Rat(SumOver(runs, [r \in runs |-> RunLength(r)]), Cardinality(runs))

\* C6 (as claimed): when the pooled streak values have zero spread, the
\* empty pool included, every player's z-score is 0 and none is NaN.
C6_ZeroSpreadGivesZero ==
    (Scored /\ PoolSpread = 0) =>
        \A p \in DOMAIN player_z_scores :
            /\ ~player_z_scores[p].nan
            /\ player_z_scores[p].num = 0

C4_TableRoundTrip ==
    /\ stage \in {"write", "read", "rebuilt"} =>
          \A p \in DOMAIN player_hit_streak_lengths :
              LET lengths == player_hit_streak_lengths[p]
              IN  \A k \in {lengths[i] : i \in 1..Len(lengths)} :
                      /\ Cardinality({i \in 1..Len(player_data_for_df) :
                            /\ player_data_for_df[i].player_id = p
                            /\ player_data_for_df[i].streak_length = k}) = 1
                      /\ \A i \in 1..Len(player_data_for_df) :
                            (/\ player_data_for_df[i].player_id = p
                             /\ player_data_for_df[i].streak_length = k)
                            => player_data_for_df[i].frequency
                                   = Occurrences(lengths, k)
    /\ stage = "rebuilt" =>
          \A p \in DOMAIN player_hit_streak_lengths :
              LET lengths == player_hit_streak_lengths[p]
                  longest == MaxOf({lengths[i] : i \in 1..Len(lengths)})
              IN  lengths # <<>> =>
                      /\ p \in DOMAIN player_streak_lists
                      /\ Len(player_streak_lists[p]) = longest + 1
                      /\ \A k \in 1..longest :
                            player_streak_lists[p][k + 1] = Occurrences(lengths, k)

====
